---------------------------- MODULE Spec2Model ----------------------------
(***************************************************************************)
(* A model of RoCell<T> (src/src/lib.rs): one storage slot                  *)
(* UnsafeCell<MaybeUninit<T>> with no occupancy flag, and the operations    *)
(* new, new_uninit, init, replace, as_mut, deref and Drop::drop.            *)
(*                                                                         *)
(* T is a type with a cleanup (a Drop impl).  Every value of T that the     *)
(* caller hands to the cell is an object with an identity (1, 2, ...) and   *)
(* a payload; cleanups[id] counts how often the cleanup of object id ran.   *)
(* The identity Uninit stands for the uninitialized bytes of                *)
(* MaybeUninit::uninit(): cleanups[Uninit] counts the cleanups that ran     *)
(* against storage that never held a value.  The payload is tracked for    *)
(* the object in the slot and for the object the last replace moved out.   *)
(***************************************************************************)
EXTENDS Integers, Sequences, FiniteSets

\* Bounds of the model.
MaxObjs == 3        \* values of T the caller ever constructs
NumData == 2        \* distinct payloads a value can carry
NumThreads == 2     \* execution contexts that share the cell

\* The content of MaybeUninit::uninit(): no object.
Uninit == 0

ObjIds == 1..MaxObjs
Slots == {Uninit} \cup ObjIds
Data == 1..NumData
\* What a read of uninitialized storage can produce: any bit pattern.
Bytes == {Uninit} \cup Data
Threads == 1..NumThreads

VARIABLES
    cell,       \* "none" (not built), "live", "dropped"
    ctor,       \* the constructor that built the cell
    slot,       \* the MaybeUninit<T>: Uninit or the object it holds
    val,        \* the payload bytes in the slot
    cleanups,   \* how often the cleanup ran, per object
    held,       \* objects the caller owns (returned by replace)
    nextId,     \* identity of the next value the caller constructs
    returned,   \* the objects replace returned, in call order
    ret,        \* what the last replace returned: object and payload
    seen,       \* per thread: <<payload>> read by its deref since the last
                \* mutation of the cell, <<>> if none
    mut,        \* the last mutating operation, the payload it deposited and
                \* the payload deposited by the mutation before it
    last,       \* the last operation
    wrote,      \* a payload was written through as_mut
    leaked,     \* objects overwritten by init while they occupied the slot
    ub          \* an operation ran against an uninitialized slot

vars == <<cell, ctor, slot, val, cleanups, held, nextId, returned, ret,
          seen, mut, last, wrote, leaked, ub>>

NoRead == [t \in Threads |-> <<>>]

Init ==
    /\ cell = "none"
    /\ ctor = "none"
    /\ slot = Uninit
    /\ val = Uninit
    /\ cleanups = [i \in Slots |-> 0]
    /\ held = {}
    /\ nextId = 1
    /\ returned = <<>>
    /\ ret = [id |-> Uninit, val |-> Uninit]
    /\ seen = NoRead
    /\ mut = [op |-> "none", arg |-> Uninit, prev |-> Uninit]
    /\ last = "none"
    /\ wrote = FALSE
    /\ leaked = {}
    /\ ub = FALSE

-----------------------------------------------------------------------------
\* The primitives the operations are written with.

\* MaybeUninit::new(value): the slot holds the value.
MaybeUninit_new(id, v) == [slot |-> id, val |-> v]

\* MaybeUninit::uninit(): the slot holds no value.
MaybeUninit_uninit == [slot |-> Uninit, val |-> Uninit]

\* A drop that first asks whether the slot is occupied.
drop_in_place_checked(c, s) ==
    IF s = Uninit THEN c ELSE [c EXCEPT ![s] = @ + 1]

\* A drop that forgets the content.
drop_in_place_forget(c, s) == c

\* core::ptr::drop_in_place(p) of Drop::drop: runs the cleanup of whatever
\* the slot holds, occupied or not.  Against uninitialized storage the
\* cleanup is still entered once (counted at Uninit); what it then does
\* with the bytes it finds is undefined, and ub records that.
drop_in_place(c, s) == [c EXCEPT ![s] = @ + 1]

\* A write by assignment (*p = value), which cleans up the old content.
ptr_write_assign(s, c, id, v) ==
    [slot |-> id, val |-> v,
     cleanups |-> IF s = Uninit THEN c ELSE [c EXCEPT ![s] = @ + 1]]

\* core::ptr::write(p, value): overwrites *p; the old content s is not read
\* and not cleaned up.  Yields the new slot and the cleanup counters.
ptr_write(s, c, id, v) == [slot |-> id, val |-> v, cleanups |-> c]

\* The payloads a read of the slot can yield.  Reading uninitialized
\* storage is undefined: any bit pattern.
read_slot(s, b) == IF s = Uninit THEN Bytes ELSE {b}

\* A replace that copies the old content out and stores nothing.
mem_replace_copy(s, b, id, v) ==
    [slot |-> s, val |-> b, out |-> [id |-> s, val |-> b]]

\* core::mem::replace(dest, value): moves value in and the old content,
\* read as payload b, out.
mem_replace(s, b, id, v) ==
    [slot |-> id, val |-> v, out |-> [id |-> s, val |-> b]]

\* An as_mut that moves the content out of the slot.
as_mut_take(s, b) == [slot |-> Uninit, val |-> Uninit]

\* &mut *(*this.0.get()).as_mut_ptr(): a reference to the slot, which is
\* left as it is.
as_mut_ref(s, b) == [slot |-> s, val |-> b]

\* A write that lands in a copy of the content.
write_copy(s, b, w) == [slot |-> s, val |-> b]

\* A write of payload w through the &mut T of as_mut: it lands in the slot.
write_through(s, b, w) == [slot |-> as_mut_ref(s, b).slot, val |-> w]

\* A deref that reads some other storage.
deref_stray(s, b) == [slot |-> s, val |-> b, reads |-> Bytes \ {b}]

\* &*(*self.0.get()).as_ptr(): a reference to the slot, which is left as it
\* is, and the payloads a read through it can yield.
deref_ref(s, b) == [slot |-> s, val |-> b, reads |-> read_slot(s, b)]

-----------------------------------------------------------------------------
\* The operations.

\* pub const fn new(value: T) -> Self
new(v) ==
    /\ cell = "none"
    /\ nextId <= MaxObjs
    /\ cell' = "live"
    /\ ctor' = "new"
    /\ LET m == MaybeUninit_new(nextId, v) IN
        /\ slot' = m.slot
        /\ val' = m.val
    /\ nextId' = nextId + 1
    /\ mut' = [op |-> "new", arg |-> v, prev |-> mut.arg]
    /\ last' = "new"
    /\ UNCHANGED <<cleanups, held, returned, ret, seen, wrote, leaked, ub>>

\* pub const unsafe fn new_uninit() -> Self
new_uninit ==
    /\ cell = "none"
    /\ cell' = "live"
    /\ ctor' = "new_uninit"
    /\ slot' = MaybeUninit_uninit.slot
    /\ val' = MaybeUninit_uninit.val
    /\ mut' = [op |-> "new_uninit", arg |-> Uninit, prev |-> mut.arg]
    /\ last' = "new_uninit"
    /\ UNCHANGED <<cleanups, held, nextId, returned, ret, seen, wrote,
                   leaked, ub>>

\* pub unsafe fn init(this: &Self, value: T)
init(v) ==
    /\ cell = "live"
    /\ nextId <= MaxObjs
    /\ LET w == ptr_write(slot, cleanups, nextId, v) IN
        /\ slot' = w.slot
        /\ val' = w.val
        /\ cleanups' = w.cleanups
    /\ nextId' = nextId + 1
    /\ leaked' = IF slot = Uninit THEN leaked ELSE leaked \cup {slot}
    /\ seen' = NoRead
    /\ mut' = [op |-> "init", arg |-> v, prev |-> mut.arg]
    /\ last' = "init"
    /\ UNCHANGED <<cell, ctor, held, returned, ret, wrote, ub>>

\* pub unsafe fn replace(this: &Self, value: T) -> T
replace(v) ==
    /\ cell = "live"
    /\ nextId <= MaxObjs
    /\ LET m == as_mut_ref(slot, val) IN
        \E b \in read_slot(m.slot, m.val) :
            LET r == mem_replace(m.slot, b, nextId, v) IN
                /\ slot' = r.slot
                /\ val' = r.val
                /\ ret' = r.out
                /\ held' = held \cup {r.out.id}
                /\ returned' = Append(returned, r.out.id)
    /\ nextId' = nextId + 1
    /\ seen' = NoRead
    /\ mut' = [op |-> "replace", arg |-> v, prev |-> mut.arg]
    /\ last' = "replace"
    /\ ub' = (ub \/ slot = Uninit)
    /\ UNCHANGED <<cell, ctor, cleanups, wrote, leaked>>

\* pub unsafe fn as_mut(this: &Self) -> &mut T, the reference not written
\* through.
as_mut ==
    /\ cell = "live"
    /\ LET m == as_mut_ref(slot, val) IN
        /\ slot' = m.slot
        /\ val' = m.val
    /\ last' = "as_mut"
    /\ ub' = (ub \/ slot = Uninit)
    /\ UNCHANGED <<cell, ctor, cleanups, held, nextId, returned, ret, seen,
                   mut, wrote, leaked>>

\* as_mut, and payload w written in place through the returned &mut T.
as_mut_write(w) ==
    /\ cell = "live"
    /\ LET m == write_through(slot, val, w) IN
        /\ slot' = m.slot
        /\ val' = m.val
    /\ seen' = NoRead
    /\ mut' = [op |-> "write", arg |-> w, prev |-> mut.arg]
    /\ last' = "write"
    /\ wrote' = TRUE
    /\ ub' = (ub \/ slot = Uninit)
    /\ UNCHANGED <<cell, ctor, cleanups, held, nextId, returned, ret,
                   leaked>>

\* fn deref(&self) -> &T, called by thread t, which reads the payload.
deref(t) ==
    /\ cell = "live"
    /\ LET d == deref_ref(slot, val) IN
        /\ slot' = d.slot
        /\ val' = d.val
        /\ \E b \in d.reads : seen' = [seen EXCEPT ![t] = <<b>>]
    /\ last' = "deref"
    /\ ub' = (ub \/ slot = Uninit)
    /\ UNCHANGED <<cell, ctor, cleanups, held, nextId, returned, ret, mut,
                   wrote, leaked>>

\* impl Drop for RoCell: fn drop(&mut self)
drop ==
    /\ cell = "live"
    /\ cell' = "dropped"
    /\ cleanups' = drop_in_place(cleanups, slot)
    /\ last' = "drop"
    /\ ub' = (ub \/ slot = Uninit)
    /\ UNCHANGED <<ctor, slot, val, held, nextId, returned, ret, seen, mut,
                   wrote, leaked>>

\* The caller drops a value that replace returned to it: the T moved out
\* is the caller's to clean up.
caller_drop(id) ==
    /\ id \in held
    /\ held' = held \ {id}
    /\ cleanups' = [cleanups EXCEPT ![id] = @ + 1]
    /\ last' = "caller_drop"
    /\ ub' = (ub \/ id = Uninit)
    /\ UNCHANGED <<cell, ctor, slot, val, nextId, returned, ret, seen, mut,
                   wrote, leaked>>

Next ==
    \/ \E v \in Data : new(v)
    \/ new_uninit
    \/ \E v \in Data : init(v)
    \/ \E v \in Data : replace(v)
    \/ as_mut
    \/ \E w \in Data : as_mut_write(w)
    \/ \E t \in Threads : deref(t)
    \/ drop
    \/ \E id \in Slots : caller_drop(id)

Spec == Init /\ [][Next]_vars

-----------------------------------------------------------------------------
\* Vocabulary of the properties.

Initialized == slot # Uninit

\* Every thread that read since the last mutation read payload b.
ReadersSaw(b) == \A t \in Threads : seen[t] # <<>> => seen[t] = <<b>>

SomeReaderSaw(b) == \E t \in Threads : seen[t] = <<b>>

\* The cell was built by new and only replace has stored into it since.
OnlyReplaces == ctor = "new" /\ leaked = {} /\ ~wrote

Range(q) == {q[i] : i \in 1..Len(q)}

-----------------------------------------------------------------------------
\* C1: a cell built by new(v) into which nothing else was stored, once
\* destroyed, has run the cleanup of v exactly once, and no cleanup against
\* uninitialized storage.
C1_NewThenDropCleansOnce ==
    (cell = "dropped" /\ ctor = "new" /\ nextId = 2) =>
        (cleanups[1] = 1 /\ cleanups[Uninit] = 0)

\* new(v) directly followed by the destruction of the cell.
C1_Witness ==
    /\ cell = "dropped" /\ ctor = "new" /\ nextId = 2
    /\ mut.op = "new" /\ seen = NoRead /\ last = "drop"
    /\ cleanups[1] = 1

\* C2: after new_uninit() and init(cell, v), with no use of the cell before
\* the init and no later mutation, every deref yields v.
C2_InitThenDeref ==
    (ctor = "new_uninit" /\ nextId = 2 /\ mut.op = "init" /\ ~ub) =>
        (slot = 1 /\ val = mut.arg /\ ReadersSaw(mut.arg))

\* new_uninit(), init(cell, v), then a deref that read v.
C2_Witness ==
    /\ ctor = "new_uninit" /\ nextId = 2 /\ mut.op = "init" /\ ~ub
    /\ last = "deref" /\ SomeReaderSaw(mut.arg) /\ mut.arg \in Data

\* C3: for a cell built by new(v0) and then only replaced into, the i-th
\* replace returned the object stored by the step before it (the objects
\* come back in the order 1, 2, ...), the last replace returned the payload
\* deposited just before it, and the cell holds the last value given: a
\* deref yields it.
C3_ReplaceChain ==
    (OnlyReplaces /\ cell # "none") =>
        /\ returned = [i \in 1..(nextId - 2) |-> i]
        /\ slot = nextId - 1
        /\ val = mut.arg
        /\ ReadersSaw(mut.arg)
        /\ (returned # <<>> =>
                ret = [id |-> nextId - 2, val |-> mut.prev])

\* new(v1), replace(v2), replace(v3) with v2 # v3, then a deref reading v3.
C3_Witness ==
    /\ OnlyReplaces /\ cell = "live"
    /\ returned = <<1, 2>> /\ slot = 3
    /\ ret.val = mut.prev /\ mut.prev # mut.arg
    /\ SomeReaderSaw(mut.arg)

\* C4: when the cell was initialized before any other use and init never
\* overwrote a value, every value handed to the cell is in exactly one of
\* three conditions: owned by the live cell (in the slot, not cleaned up),
\* owned by the caller (returned by replace, not cleaned up), or cleaned up
\* exactly once, and then it was returned by replace or it is the value
\* held last and the cell is destroyed.  After the destruction the value
\* held last is cleaned up.  No cleanup runs against uninitialized storage.
C4_OwnedOnceCleanedOnce ==
    (~ub /\ leaked = {} /\ Initialized) =>
        /\ cleanups[Uninit] = 0
        /\ \A id \in 1..(nextId - 1) :
            LET inCell == cell = "live" /\ slot = id
                inCaller == id \in held
            IN  \/ inCell /\ ~inCaller /\ cleanups[id] = 0
                \/ inCaller /\ ~inCell /\ cleanups[id] = 0
                    /\ id \in Range(returned)
                \/ ~inCell /\ ~inCaller /\ cleanups[id] = 1
                    /\ \/ id \in Range(returned)
                       \/ cell = "dropped" /\ id = nextId - 1
        /\ (cell = "dropped" => cleanups[nextId - 1] = 1)

\* Two replaces, a write through as_mut, the cell destroyed and the caller
\* done with what it was handed: three values, each cleaned up once.
C4_Witness ==
    /\ ~ub /\ leaked = {} /\ Initialized
    /\ cell = "dropped" /\ held = {} /\ wrote
    /\ returned = <<1, 2>>
    /\ \A id \in 1..3 : cleanups[id] = 1

\* C5 as stated: a cell built by new_uninit(), never initialized, then
\* destroyed, has run no cleanup at all.
C5_NoCleanupOnUninit ==
    (cell = "dropped" /\ ctor = "new_uninit" /\ nextId = 1) =>
        \A i \in Slots : cleanups[i] = 0

\* C5 amended: a cell built by new_uninit(), never initialized, then
\* destroyed, has run the cleanup once, against its uninitialized storage,
\* and the cleanup of no value.
C5_CleanupRunsOnUninit ==
    (cell = "dropped" /\ ctor = "new_uninit" /\ nextId = 1) =>
        (cleanups[Uninit] = 1 /\ \A id \in ObjIds : cleanups[id] = 0)

\* new_uninit() directly followed by the destruction of the cell.
C5_Witness ==
    /\ cell = "dropped" /\ ctor = "new_uninit" /\ nextId = 1
    /\ mut.op = "new_uninit" /\ seen = NoRead /\ ~wrote
    /\ cleanups[Uninit] = 1

\* C6: after a write of w through as_mut on a cell that was initialized
\* before any other use, with no later mutation, the slot holds w and every
\* deref yields w.
C6_WriteThenDeref ==
    (mut.op = "write" /\ Initialized /\ ~ub) =>
        (val = mut.arg /\ ReadersSaw(mut.arg))

\* A write that changed the payload, then a deref that read the new one.
C6_Witness ==
    /\ mut.op = "write" /\ Initialized /\ ~ub /\ cell = "live"
    /\ mut.arg # mut.prev /\ last = "deref" /\ SomeReaderSaw(mut.arg)

\* C7: on a live cell that was initialized before any other use, every
\* thread that called deref since the last mutation read the payload the
\* cell holds now: the derefs of the other threads, in whatever order,
\* changed nothing.
C7_ConcurrentDerefs ==
    (cell = "live" /\ Initialized /\ ~ub) =>
        \A t \in Threads : seen[t] # <<>> => seen[t] = <<val>>

\* Every thread has read the initialized cell since its last mutation.
C7_Witness ==
    /\ cell = "live" /\ Initialized /\ ~ub
    /\ \A t \in Threads : seen[t] = <<val>>

\* C8: a value overwritten by init is never cleaned up and is owned by
\* nobody afterwards; after the init the slot holds the new value and a
\* deref yields it.
C8_InitOverwriteLeaks ==
    /\ \A id \in leaked :
        cleanups[id] = 0 /\ id \notin held /\ slot # id
    /\ (mut.op = "init" =>
            slot = nextId - 1 /\ val = mut.arg /\ ReadersSaw(mut.arg))

\* init on a cell built by new, a deref reading the new value, and the
\* cell destroyed: the overwritten value is still not cleaned up.
C8_Witness ==
    /\ ctor = "new" /\ leaked = {1} /\ mut.op = "init"
    /\ SomeReaderSaw(mut.arg) /\ cell = "dropped" /\ held = {}
    /\ cleanups[1] = 0

\* C9: the destruction of the cell runs one cleanup against whatever the
\* slot holds, an object or uninitialized storage alike, and nothing else.
C9_DropUnconditional ==
    [][(cell = "live" /\ cell' = "dropped") =>
           cleanups' = [cleanups EXCEPT ![slot] = @ + 1]]_vars

\* A destroyed cell whose slot was never initialized, the cleanup run.
C9_Witness ==
    cell = "dropped" /\ last = "drop" /\ ~Initialized /\ cleanups[slot] = 1

\* C10: on an initialized cell, a deref or an as_mut whose reference is not
\* written through leaves the slot, its payload, the cleanup counts, the
\* owners and the state of the cell as they were.
C10_BorrowsChangeNothing ==
    [][(last' \in {"deref", "as_mut"} /\ Initialized) =>
           /\ slot' = slot /\ val' = val
           /\ cleanups' = cleanups /\ held' = held
           /\ cell' = cell /\ leaked' = leaked]_vars

\* as_mut after a deref on an initialized cell.
C10_Witness ==
    /\ last = "as_mut" /\ Initialized /\ ~ub /\ cell = "live"
    /\ \A t \in Threads : seen[t] = <<val>>

=============================================================================
